---------------------------- MODULE Spec2Model ----------------------------
(***************************************************************************)
(* Indian AQI calculator (src/src/indian_aqi_calculator.py) and policy     *)
(* impact analyzer (src/src/policy_impact_analyzer.py).                    *)
(*                                                                         *)
(* Numbers.  A concentration is an integer count x of 1/Scale table steps, *)
(* the table step being 1 ug/m3 for every pollutant but CO, whose table is *)
(* written in steps of 0.1 mg/m3 and is held here multiplied by 10.  The   *)
(* Python float the code sees is x / Scale (x / (10 * Scale) for CO).  On  *)
(* this grid the float interpolation followed by round() equals the exact  *)
(* rational rounded half-to-even, which is what PyRound computes.          *)
(*                                                                         *)
(* The analyzer's float64 values are exact rationals, NaN or an infinity;   *)
(* on the rows loaded here the comparisons of the code give the same       *)
(* answers on the floats as on the rationals.                              *)
(*                                                                         *)
(* Optional values.  Python's None is the empty sequence, a present value  *)
(* v is the one-element sequence <<v>>.                                    *)
(*                                                                         *)
(* Specifications.  SpecSub calls calculate_sub_index again and again,     *)
(* SpecAqi calls calculate_indian_aqi on one reading, SpecPolicy builds a  *)
(* PolicyImpactAnalyzer on one dataset and calls analyze_odd_even_scheme,  *)
(* SpecGrap and SpecHealth do the same for analyze_grap_effectiveness and  *)
(* calculate_health_cost_impact, and SpecSession interleaves the calls of  *)
(* all of them in one process.                                             *)
(***************************************************************************)
EXTENDS Integers, Sequences, FiniteSets

VARIABLES
    sub,        \* the latest calculate_sub_index call: its arguments and result
    reading,    \* the keyword arguments of the latest calculate_indian_aqi call
    aqiResult,  \* what that call returned
    df,         \* PolicyImpactAnalyzer.df, the rows loaded by __init__
    ttest,      \* the p-value scipy.stats.ttest_ind answers with, per period
    report,     \* the rows returned by the latest analyze_odd_even_scheme call
    slices,     \* the before/during/after frames that call extracted per period
    grap,       \* what the latest analyze_grap_effectiveness call returned
    health,     \* the latest calculate_health_cost_impact call and its result
    globals,    \* the module-level tables the functions read
    history,    \* the calculate_indian_aqi calls made so far: the reading, the
                \* result, and whether the reading had been passed before
    advice,     \* the latest HealthAdvisor.get_recommendation call and its result
    workflow    \* the AgentOrchestrator workflow in progress: where it stands,
                \* what the agents returned, which agents were invoked

vars == <<sub, reading, aqiResult, df, ttest, report, slices, grap, health, globals,
          history, advice, workflow>>

None == <<>>
Some(v) == <<v>>
IsNone(o) == o = <<>>
Val(o) == o[1]

-----------------------------------------------------------------------------
(* Bounds of the model *)

\* concentrations are multiples of 1/Scale of a table step
Scale == 2
\* grid points kept within Near grid steps of every bracket bound
Near == 3
\* away from the bracket bounds, every Stride-th grid point is kept
Stride == 30
\* table steps explored above the last bracket
Over == 2
\* brackets whose upper bound a reading may carry
Bands == 2

-----------------------------------------------------------------------------
(* Reference data *)

Pollutants == <<"PM2.5", "PM10", "NO2", "SO2", "CO", "O3">>

\* mutant: tables whose brackets share their bounds, each c_low being the
\* previous c_high
INDIAN_AQI_BREAKPOINTS_SharedBounds ==
    [p \in {"PM2.5", "PM10", "NO2", "SO2", "CO", "O3"} |->
        << <<0, 30, 0, 50>>, <<30, 60, 51, 100>>, <<60, 90, 101, 200>>,
           <<90, 120, 201, 300>>, <<120, 250, 301, 400>>, <<250, 500, 401, 500>> >>]

\* (min_concentration, max_concentration, min_aqi, max_aqi); CO in 0.1 mg/m3
INDIAN_AQI_BREAKPOINTS ==
    [p \in {"PM2.5", "PM10", "NO2", "SO2", "CO", "O3"} |->
        CASE p = "PM2.5" -> << <<0, 30, 0, 50>>, <<31, 60, 51, 100>>,
                               <<61, 90, 101, 200>>, <<91, 120, 201, 300>>,
                               <<121, 250, 301, 400>>, <<251, 500, 401, 500>> >>
          [] p = "PM10"  -> << <<0, 50, 0, 50>>, <<51, 100, 51, 100>>,
                               <<101, 250, 101, 200>>, <<251, 350, 201, 300>>,
                               <<351, 430, 301, 400>>, <<431, 600, 401, 500>> >>
          [] p = "NO2"   -> << <<0, 40, 0, 50>>, <<41, 80, 51, 100>>,
                               <<81, 180, 101, 200>>, <<181, 280, 201, 300>>,
                               <<281, 400, 301, 400>>, <<401, 1000, 401, 500>> >>
          [] p = "SO2"   -> << <<0, 40, 0, 50>>, <<41, 80, 51, 100>>,
                               <<81, 380, 101, 200>>, <<381, 800, 201, 300>>,
                               <<801, 1600, 301, 400>>, <<1601, 2400, 401, 500>> >>
          [] p = "CO"    -> << <<0, 10, 0, 50>>, <<11, 20, 51, 100>>,
                               <<21, 100, 101, 200>>, <<101, 170, 201, 300>>,
                               <<171, 340, 301, 400>>, <<341, 500, 401, 500>> >>
          [] p = "O3"    -> << <<0, 50, 0, 50>>, <<51, 100, 51, 100>>,
                               <<101, 168, 101, 200>>, <<169, 208, 201, 300>>,
                               <<209, 748, 301, 400>>, <<749, 1000, 401, 500>> >>]

\* the bands in the dict's insertion order: (low, high) and the info of each
INDIAN_AQI_CATEGORIES ==
    << [low |-> 0, high |-> 50, category |-> "Good", color |-> "#00B050",
        health_impact |-> "Minimal impact"],
       [low |-> 51, high |-> 100, category |-> "Satisfactory", color |-> "#92D050",
        health_impact |-> "Minor breathing discomfort for sensitive people"],
       [low |-> 101, high |-> 200, category |-> "Moderate", color |-> "#FFFF00",
        health_impact |-> "Breathing discomfort for people with lung/heart disease"],
       [low |-> 201, high |-> 300, category |-> "Poor", color |-> "#FF9900",
        health_impact |-> "Breathing discomfort for most people"],
       [low |-> 301, high |-> 400, category |-> "Very Poor", color |-> "#FF0000",
        health_impact |-> "Respiratory illness on prolonged exposure"],
       [low |-> 401, high |-> 500, category |-> "Severe", color |-> "#C00000",
        health_impact |-> "Affects healthy people, serious impact on ill"] >>

-----------------------------------------------------------------------------
(* calculate_sub_index *)

\* mutant: the quotient truncated instead of rounded
PyRound_Floor(n, d) == n \div d

\* Python's round() of the rational n / d (d > 0): nearest integer, ties to even
PyRound(n, d) ==
    LET q == n \div d
        r == n % d
    IN  IF 2 * r < d THEN q
        ELSE IF 2 * r > d THEN q + 1
        ELSE IF q % 2 = 0 THEN q ELSE q + 1

\* mutant: the upper bound of a bracket excluded
InBracket_Strict(x, b) == b[1] * Scale <= x /\ x < b[2] * Scale

\* c_low <= concentration <= c_high, the concentration being x / Scale
InBracket(x, b) == b[1] * Scale <= x /\ x <= b[2] * Scale

\* mutant: the interpolation without its "+ i_low"
Interpolate_NoOffset(x, b) ==
    PyRound((b[4] - b[3]) * (x - b[1] * Scale), (b[2] - b[1]) * Scale)

\* round(((i_high - i_low) / (c_high - c_low)) * (concentration - c_low) + i_low)
Interpolate(x, b) ==
    PyRound((b[4] - b[3]) * (x - b[1] * Scale) + b[3] * (b[2] - b[1]) * Scale,
            (b[2] - b[1]) * Scale)

\* mutant: 500 returned whenever the loop has found no bracket
AboveAll_Always(x, breakpoints) == Some(500)

\* mutant: no ceiling, a concentration above the table left undefined
AboveAll_Undefined(x, breakpoints) == None

\* the value returned once the loop has found no bracket
AboveAll(x, breakpoints) ==
    IF x > breakpoints[Len(breakpoints)][2] * Scale THEN Some(500) ELSE None

\* the for loop: the first bracket, in table order, that contains x
RECURSIVE ScanBrackets(_, _, _)
ScanBrackets(x, breakpoints, i) ==
    IF i > Len(breakpoints) THEN AboveAll(x, breakpoints)
    ELSE IF InBracket(x, breakpoints[i]) THEN Some(Interpolate(x, breakpoints[i]))
    ELSE ScanBrackets(x, breakpoints, i + 1)

\* concentration: None or <<x>>; the result: None or <<sub-index>>
calculate_sub_index(concentration, pollutant) ==
    IF \/ IsNone(concentration)
       \/ pollutant \notin DOMAIN globals.INDIAN_AQI_BREAKPOINTS
    THEN None
    ELSE ScanBrackets(Val(concentration),
                      globals.INDIAN_AQI_BREAKPOINTS[pollutant], 1)

-----------------------------------------------------------------------------
(* The concentrations the calls are made with *)

BracketBounds(p) ==
    {INDIAN_AQI_BREAKPOINTS[p][i][1] : i \in 1..Len(INDIAN_AQI_BREAKPOINTS[p])}
    \cup {INDIAN_AQI_BREAKPOINTS[p][i][2] : i \in 1..Len(INDIAN_AQI_BREAKPOINTS[p])}

TopOf(p) == INDIAN_AQI_BREAKPOINTS[p][Len(INDIAN_AQI_BREAKPOINTS[p])][2]

\* negative values, every neighbourhood of a bracket bound, a stride in between
ConcGrid(p) ==
    {x \in (0 - Near)..((TopOf(p) + Over) * Scale) :
        \/ x % Stride = 0
        \/ \E c \in BracketBounds(p) : x - c * Scale \in (0 - Near)..Near}

\* the pollutant names a caller may pass, one of them not in the table
CalledPollutants == DOMAIN INDIAN_AQI_BREAKPOINTS \cup {"PM1"}

GridOf(p) == IF p \in DOMAIN INDIAN_AQI_BREAKPOINTS THEN ConcGrid(p) ELSE {0, Scale}

NoCall == [pollutant |-> "", concentration |-> None, result |-> None,
           raised |-> FALSE, called |-> FALSE]

\* mutant: a call that leaves only the first bracket in the table it read
SubIndexCall_Truncating(p, c) ==
    /\ sub' = [pollutant |-> p, concentration |-> c,
               result |-> calculate_sub_index(c, p),
               raised |-> FALSE, called |-> TRUE]
    /\ globals' =
          IF p \in DOMAIN globals.INDIAN_AQI_BREAKPOINTS
          THEN [globals EXCEPT !.INDIAN_AQI_BREAKPOINTS[p] = <<@[1]>>]
          ELSE globals
    /\ UNCHANGED <<reading, aqiResult, df, ttest, report, slices, grap, health,
                   history, advice, workflow>>

\* one call of calculate_sub_index(c, p)
SubIndexCall(p, c) ==
    \* every path of the function ends in a return: nothing is raised
    /\ sub' = [pollutant |-> p, concentration |-> c,
               result |-> calculate_sub_index(c, p),
               raised |-> FALSE, called |-> TRUE]
    /\ UNCHANGED <<reading, aqiResult, df, ttest, report, slices, grap, health,
                   globals, history, advice, workflow>>

\* a call with any pollutant name and any concentration of the grid
CallSubIndex ==
    \E p \in CalledPollutants :
        \E c \in {None} \cup {Some(x) : x \in GridOf(p)} : SubIndexCall(p, c)

-----------------------------------------------------------------------------
(* calculate_indian_aqi *)

\* the keyword parameter that carries each pollutant, in the order of the ifs
KeywordOf(p) ==
    CASE p = "PM2.5" -> "pm25" [] p = "PM10" -> "pm10" [] p = "NO2" -> "no2"
      [] p = "SO2" -> "so2" [] p = "CO" -> "co" [] p = "O3" -> "o3"

\* sub_indices: a dict, held as its items in insertion order, <<key, value>>
RECURSIVE SubIndicesFrom(_, _)
SubIndicesFrom(r, i) ==
    IF i > Len(Pollutants) THEN <<>>
    ELSE LET p == Pollutants[i]
         IN  IF IsNone(r[KeywordOf(p)]) THEN SubIndicesFrom(r, i + 1)
             ELSE <<<<p, calculate_sub_index(r[KeywordOf(p)], p)>>>>
                  \o SubIndicesFrom(r, i + 1)

\* mutant: an undefined sub-index kept as 0
ValidIndices_ZeroFill(items) ==
    [i \in 1..Len(items) |->
        <<items[i][1], IF IsNone(items[i][2]) THEN 0 ELSE Val(items[i][2])>>]

\* mutant: the items after an undefined sub-index dropped with it
RECURSIVE ValidIndices_StopAtNone(_)
ValidIndices_StopAtNone(items) ==
    IF items = <<>> THEN <<>>
    ELSE IF IsNone(Head(items)[2]) THEN <<>>
    ELSE <<<<Head(items)[1], Val(Head(items)[2])>>>>
         \o ValidIndices_StopAtNone(Tail(items))

\* {k: v for k, v in sub_indices.items() if v is not None}
RECURSIVE ValidIndices(_)
ValidIndices(items) ==
    IF items = <<>> THEN <<>>
    ELSE IF IsNone(Head(items)[2]) THEN ValidIndices(Tail(items))
    ELSE <<<<Head(items)[1], Val(Head(items)[2])>>>> \o ValidIndices(Tail(items))

\* mutant: the minimum taken for the maximum
MaxValue_Min(items) ==
    CHOOSE v \in {items[i][2] : i \in 1..Len(items)} :
        \A j \in 1..Len(items) : v <= items[j][2]

\* max(valid_indices.values())
MaxValue(items) ==
    CHOOSE v \in {items[i][2] : i \in 1..Len(items)} :
        \A j \in 1..Len(items) : items[j][2] <= v

\* mutant: the last key holding the maximum
DominantKey_Last(items) ==
    LET last == CHOOSE i \in 1..Len(items) :
                   /\ items[i][2] = MaxValue(items)
                   /\ \A j \in (i + 1)..Len(items) : items[j][2] < MaxValue(items)
    IN  items[last][1]

\* max(valid_indices, key=valid_indices.get): the first key holding the maximum
DominantKey(items) ==
    LET first == CHOOSE i \in 1..Len(items) :
                    /\ items[i][2] = MaxValue(items)
                    /\ \A j \in 1..(i - 1) : items[j][2] < MaxValue(items)
    IN  items[first][1]

UnknownCategory == [category |-> "Unknown", color |-> "#888888", health_impact |-> "N/A"]

\* mutant: the upper bound of a band excluded
InBand_Strict(aqi, band) == band.low <= aqi /\ aqi < band.high

\* low <= aqi <= high
InBand(aqi, band) == band.low <= aqi /\ aqi <= band.high

\* the category loop: the first band, in dict order, that contains aqi
RECURSIVE CategoryInfo(_, _)
CategoryInfo(aqi, i) ==
    IF i > Len(globals.INDIAN_AQI_CATEGORIES) THEN UnknownCategory
    ELSE IF InBand(aqi, globals.INDIAN_AQI_CATEGORIES[i])
         THEN [category |-> globals.INDIAN_AQI_CATEGORIES[i].category,
               color |-> globals.INDIAN_AQI_CATEGORIES[i].color,
               health_impact |-> globals.INDIAN_AQI_CATEGORIES[i].health_impact]
    ELSE CategoryInfo(aqi, i + 1)

\* the returned dict, once valid_indices is known to be non-empty
AqiDict(valid_indices) ==
    LET aqi == MaxValue(valid_indices)
        category_info == CategoryInfo(aqi, 1)
    IN  [aqi |-> aqi,
         category |-> category_info.category,
         color |-> category_info.color,
         health_impact |-> category_info.health_impact,
         dominant_pollutant |-> DominantKey(valid_indices),
         sub_indices |-> valid_indices]

\* r: keyword -> None or <<x>>; the result: None or <<the returned dict>>
calculate_indian_aqi(r) ==
    LET valid_indices == ValidIndices(SubIndicesFrom(r, 1))
    IN  IF valid_indices = <<>> THEN None ELSE Some(AqiDict(valid_indices))

Keywords == {KeywordOf(Pollutants[i]) : i \in 1..Len(Pollutants)}

\* the keyword arguments a caller writes to pass the concentrations of r,
\* in the order given: <<keyword, value>> pairs, absent pollutants not passed
Kwargs(r, order) ==
    SelectSeq([i \in 1..Len(order) |-> <<order[i], r[order[i]]>>],
              LAMBDA kv : kv[2] /= None)

\* the parameters of the call: each bound by name to the argument passed for
\* it, or to its default None
BindKeywords(kwargs) ==
    [k \in Keywords |->
        IF \E i \in 1..Len(kwargs) : kwargs[i][1] = k
        THEN kwargs[CHOOSE i \in 1..Len(kwargs) : kwargs[i][1] = k][2]
        ELSE None]

\* the orders a caller may write the keywords in: that of the signature, its
\* reverse, and one starting in the middle
KeywordOrders ==
    {<<"pm25", "pm10", "no2", "so2", "co", "o3">>,
     <<"o3", "co", "so2", "no2", "pm10", "pm25">>,
     <<"so2", "co", "o3", "pm25", "pm10", "no2">>}

\* the concentrations a reading may carry for pollutant p: absent, negative,
\* the upper bounds of the first Bands brackets, a value in the gap after the
\* first bracket, and a value above the table
ReadingConcs(p) ==
    {None, Some(0 - 1), Some(INDIAN_AQI_BREAKPOINTS[p][1][2] * Scale + 1),
     Some((TopOf(p) + Over) * Scale)}
    \cup {Some(INDIAN_AQI_BREAKPOINTS[p][i][2] * Scale) : i \in 1..Bands}

Readings ==
    {[pm25 |-> a, pm10 |-> b, no2 |-> c, so2 |-> d, co |-> e, o3 |-> f] :
        a \in ReadingConcs("PM2.5"), b \in ReadingConcs("PM10"),
        c \in ReadingConcs("NO2"), d \in ReadingConcs("SO2"),
        e \in ReadingConcs("CO"), f \in ReadingConcs("O3")}

\* the two readings of the module's self-test
DelhiReading ==
    [pm25 |-> Some(187 * Scale), pm10 |-> Some(254 * Scale), no2 |-> None,
     so2 |-> None, co |-> None, o3 |-> None]
BengaluruReading ==
    [pm25 |-> Some(73 * Scale), pm10 |-> Some(97 * Scale), no2 |-> None,
     so2 |-> None, co |-> None, o3 |-> None]

NoReading == [k \in Keywords |-> None]
NotCalled == [called |-> FALSE, raised |-> FALSE, result |-> None]

\* one call of calculate_indian_aqi with the keyword arguments r
IndianAqiCall(r) ==
    \* every path of the function ends in a return: nothing is raised
    /\ reading' = r
    /\ aqiResult' = [called |-> TRUE, raised |-> FALSE,
                     result |-> calculate_indian_aqi(r)]
    /\ history' = history \cup
          {[reading |-> r, result |-> calculate_indian_aqi(r),
            repeat |-> \E h \in history : h.reading = r]}
    /\ UNCHANGED <<sub, df, ttest, report, slices, grap, health, globals, advice,
                   workflow>>

\* a call with the keyword arguments held in reading
CallIndianAqi == IndianAqiCall(reading)

-----------------------------------------------------------------------------
(* Numbers of the analyzer: numpy float64 values *)

(* A float is a record: k = "num" for the rational n / d (d > 0, in lowest    *)
(* terms), k = "inf" for the infinity of sign n, k = "nan" for NaN.           *)

RECURSIVE GCD(_, _)
GCD(a, b) == IF b = 0 THEN a ELSE GCD(b, a % b)

Abs(a) == IF a < 0 THEN 0 - a ELSE a
Sign(a) == IF a < 0 THEN 0 - 1 ELSE 1

NaN == [k |-> "nan", n |-> 0, d |-> 1]
Inf(sign) == [k |-> "inf", n |-> sign, d |-> 1]
Num(n, d) ==
    LET g == GCD(Abs(n), d)
    IN  [k |-> "num", n |-> n \div g, d |-> d \div g]

IsNaN(a) == a.k = "nan"
IsNum(a) == a.k = "num"

\* a - b
FSub(a, b) ==
    IF IsNaN(a) \/ IsNaN(b) THEN NaN
    ELSE IF IsNum(a) /\ IsNum(b) THEN Num(a.n * b.d - b.n * a.d, a.d * b.d)
    ELSE IF IsNum(b) THEN a
    ELSE IF IsNum(a) THEN Inf(0 - b.n)
    ELSE IF a.n = b.n THEN NaN ELSE a

\* a / b; a division by zero gives an infinity, or NaN for 0 / 0, and no error
FDiv(a, b) ==
    IF IsNaN(a) \/ IsNaN(b) THEN NaN
    ELSE IF IsNum(a) /\ IsNum(b)
         THEN IF b.n = 0 THEN (IF a.n = 0 THEN NaN ELSE Inf(Sign(a.n)))
              ELSE Num(a.n * b.d * Sign(b.n), a.d * Abs(b.n))
    ELSE IF IsNum(b) THEN Inf(a.n * Sign(b.n))
    ELSE IF IsNum(a) THEN Num(0, 1)
    ELSE NaN

\* a * b
FMul(a, b) ==
    IF IsNaN(a) \/ IsNaN(b) THEN NaN
    ELSE IF IsNum(a) /\ IsNum(b) THEN Num(a.n * b.n, a.d * b.d)
    ELSE IF (IsNum(a) /\ a.n = 0) \/ (IsNum(b) /\ b.n = 0) THEN NaN
    ELSE Inf(Sign(a.n) * Sign(b.n))

\* a < b; every comparison with NaN is False
FLess(a, b) ==
    IF IsNaN(a) \/ IsNaN(b) THEN FALSE
    ELSE IF IsNum(a) /\ IsNum(b) THEN a.n * b.d < b.n * a.d
    ELSE IF IsNum(b) THEN a.n < 0
    ELSE IF IsNum(a) THEN b.n > 0
    ELSE a.n < b.n

-----------------------------------------------------------------------------
(* Dates: a Timestamp at midnight is its day number, 0 being 1970-01-01 *)

\* pd.to_datetime("YYYY-MM-DD"), the date given as <<YYYY, MM, DD>>
to_datetime(date) ==
    LET y == IF date[2] <= 2 THEN date[1] - 1 ELSE date[1]
        era == y \div 400
        yoe == y - era * 400
        mp == IF date[2] > 2 THEN date[2] - 3 ELSE date[2] + 9
        doy == (153 * mp + 2) \div 5 + date[3] - 1
        doe == yoe * 365 + yoe \div 4 - yoe \div 100 + doy
    IN  era * 146097 + doe - 719468

\* Timestamp.date(): the <<YYYY, MM, DD>> of a day number
date_of(day) ==
    LET z == day + 719468
        era == z \div 146097
        doe == z - era * 146097
        yoe == (doe - doe \div 1460 + doe \div 36524 - doe \div 146096) \div 365
        doy == doe - (365 * yoe + yoe \div 4 - yoe \div 100)
        mp == (5 * doy + 2) \div 153
        m == IF mp < 10 THEN mp + 3 ELSE mp - 9
    IN  <<IF m <= 2 THEN yoe + era * 400 + 1 ELSE yoe + era * 400,
          m, doy - (153 * mp + 2) \div 5 + 1>>

-----------------------------------------------------------------------------
(* PolicyImpactAnalyzer.analyze_odd_even_scheme *)

\* POLICY_INTERVENTIONS['odd_even']['periods']
OddEvenPeriods ==
    << [start |-> <<2016, 1, 1>>, end |-> <<2016, 1, 15>>],
       [start |-> <<2016, 4, 15>>, end |-> <<2016, 4, 30>>],
       [start |-> <<2019, 11, 4>>, end |-> <<2019, 11, 15>>],
       [start |-> <<2024, 11, 15>>, end |-> <<2024, 11, 30>>] >>

\* POLICY_INTERVENTIONS, the keys the analyzer reads
POLICY_INTERVENTIONS == [odd_even |-> [periods |-> OddEvenPeriods]]

days_before == 15
days_after == 15

\* start_date, end_date, before_start and after_end of a period
Window(period) ==
    [start_date |-> to_datetime(period.start),
     end_date |-> to_datetime(period.end),
     before_start |-> to_datetime(period.start) - days_before,
     after_end |-> to_datetime(period.end) + days_after]

\* mutant: the rows of every city taken
DelhiData_AllCities(rows) == rows

\* self.df[self.df['City'] == 'Delhi']
DelhiData(rows) == {r \in rows : r.City = "Delhi"}

\* (Date >= before_start) & (Date < start_date)
BeforeMask(date, w) == date >= w.before_start /\ date < w.start_date

\* (Date >= start_date) & (Date <= end_date)
DuringMask(date, w) == date >= w.start_date /\ date <= w.end_date

\* mutant: the after slice starting on end_date itself
AfterMask_Inclusive(date, w) == date >= w.end_date /\ date <= w.after_end

\* (Date > end_date) & (Date <= after_end)
AfterMask(date, w) == date > w.end_date /\ date <= w.after_end

\* before_data, during_data and after_data of a period
Frames(rows, period) ==
    LET w == Window(period)
        delhi_data == DelhiData(rows)
    IN  [before |-> {r \in delhi_data : BeforeMask(r.Date, w)},
         during |-> {r \in delhi_data : DuringMask(r.Date, w)},
         after |-> {r \in delhi_data : AfterMask(r.Date, w)}]

RECURSIVE SumAQI(_)
SumAQI(rows) ==
    IF rows = {} THEN 0
    ELSE LET r == CHOOSE x \in rows : TRUE
         IN  r.AQI + SumAQI(rows \ {r})

\* frame['AQI'].mean(): NaN for an empty frame
Mean(rows) == IF rows = {} THEN NaN ELSE Num(SumAQI(rows), Cardinality(rows))

\* mutant: the change taken relative to the mean compared, not to the baseline
PctChange_OverMean(mean, before_mean) ==
    FMul(FDiv(FSub(mean, before_mean), mean), Num(100, 1))

\* ((mean - before_mean) / before_mean) * 100
PctChange(mean, before_mean) ==
    FMul(FDiv(FSub(mean, before_mean), before_mean), Num(100, 1))

\* mutant: the p-value left out of the verdict
Effectiveness_NoPValue(pct_change_during, p_value) ==
    IF FLess(pct_change_during, Num(0 - 5, 1))
    THEN "Effective" ELSE "Limited/No Effect"

\* mutant: the boundary -5 counted as effective
Effectiveness_Inclusive(pct_change_during, p_value) ==
    IF /\ ~FLess(Num(0 - 5, 1), pct_change_during) /\ ~IsNaN(pct_change_during)
       /\ FLess(p_value, Num(5, 100))
    THEN "Effective" ELSE "Limited/No Effect"

\* 'Effective' if pct_change_during < -5 and p_value < 0.05 else 'Limited/No Effect'
Effectiveness(pct_change_during, p_value) ==
    IF FLess(pct_change_during, Num(0 - 5, 1)) /\ FLess(p_value, Num(5, 100))
    THEN "Effective" ELSE "Limited/No Effect"

\* the p-values scipy.stats.ttest_ind may answer with for two samples: NaN
\* when a sample is empty or the two hold a single row each (no degree of
\* freedom); otherwise the value of the t distribution, which is scipy's and
\* is left open here (NaN again for samples scipy finds degenerate)
PValues == {Num(20, 1000), Num(50, 1000)}
TTestOutcomes(before_data, during_data) ==
    IF \/ before_data = {} \/ during_data = {}
       \/ Cardinality(before_data) + Cardinality(during_data) <= 2
    THEN {NaN} ELSE PValues \cup {NaN}

\* the dict appended to results for one period, p_value being the t-test's
ReportRow(rows, period, p_value) ==
    LET f == Frames(rows, period)
        before_mean == Mean(f.before)
        during_mean == Mean(f.during)
        after_mean == Mean(f.after)
        pct_change_during == PctChange(during_mean, before_mean)
        pct_change_after == PctChange(after_mean, before_mean)
    IN  [period |-> <<date_of(Window(period).start_date),
                      date_of(Window(period).end_date)>>,
         before_aqi |-> before_mean,
         during_aqi |-> during_mean,
         after_aqi |-> after_mean,
         pct_change_during |-> pct_change_during,
         pct_change_after |-> pct_change_after,
         statistically_significant |-> FLess(p_value, Num(5, 100)),
         p_value |-> p_value,
         effectiveness |-> Effectiveness(pct_change_during, p_value)]

\* mutant: the rows appended in the reverse of the catalog's order
OddEvenReport_Reversed(periods, rows, pvalues) ==
    [i \in 1..Len(periods) |->
        ReportRow(rows, periods[Len(periods) + 1 - i], pvalues[Len(periods) + 1 - i])]

\* the for loop over the catalog periods: every iteration computes its
\* frames anew from rows and appends one dict to results
OddEvenReport(periods, rows, pvalues) ==
    [i \in 1..Len(periods) |-> ReportRow(rows, periods[i], pvalues[i])]

\* the whole method: one row per period, in the catalog's order
analyze_odd_even_scheme(rows, pvalues) ==
    OddEvenReport(globals.POLICY_INTERVENTIONS.odd_even.periods, rows, pvalues)

NoReport == [called |-> FALSE, raised |-> FALSE, rows |-> <<>>]

\* one call of analyze_odd_even_scheme on the loaded rows
AnalyzeOddEven ==
    \* pandas and numpy turn an empty frame and a zero divisor into NaN or
    \* infinity with a warning, and ttest_ind answers NaN: nothing is raised
    /\ report' = [called |-> TRUE, raised |-> FALSE,
                  rows |-> analyze_odd_even_scheme(df, ttest)]
    /\ slices' = [i \in 1..Len(globals.POLICY_INTERVENTIONS.odd_even.periods) |->
                    Frames(df, globals.POLICY_INTERVENTIONS.odd_even.periods[i])]
    /\ UNCHANGED <<sub, reading, aqiResult, df, ttest, grap, health, globals,
                   history, advice, workflow>>

-----------------------------------------------------------------------------
(* PolicyImpactAnalyzer.analyze_grap_effectiveness *)

ncr_cities == {"Delhi", "Noida", "Gurgaon", "Faridabad", "Ghaziabad"}

\* Date.dt.month.isin([10, 11, 12, 1, 2])
WinterMonth(date) == date_of(date)[2] \in {10, 11, 12, 1, 2}

\* the NCR rows of the winter months
WinterData(rows) == {r \in rows : r.City \in ncr_cities /\ WinterMonth(r.Date)}

\* winter_data[Date < '2017-01-01']
BeforeGrap(rows) == {r \in WinterData(rows) : r.Date < to_datetime(<<2017, 1, 1>>)}

\* winter_data[Date >= '2017-01-01']
AfterGrap(rows) == {r \in WinterData(rows) : r.Date >= to_datetime(<<2017, 1, 1>>)}

\* mutant: a day of AQI 300 counted as hazardous
HazardousDays_From300(frame) == Cardinality({r \in frame : r.AQI >= 300})

\* (frame['AQI'] > 300).sum()
HazardousDays(frame) == Cardinality({r \in frame : r.AQI > 300})

\* (hazardous_days / total_days) * 100, hazardous_days being a numpy integer:
\* the division of 0 by 0 gives NaN with a warning, and no error
HazardousPct(frame) ==
    FMul(FDiv(Num(HazardousDays(frame), 1), Num(Cardinality(frame), 1)),
         Num(100, 1))

\* the returned dict
analyze_grap_effectiveness(rows) ==
    LET before_pct == HazardousPct(BeforeGrap(rows))
        after_pct == HazardousPct(AfterGrap(rows))
    IN  [policy |-> "GRAP (Graded Response Action Plan)",
         region |-> "NCR (Delhi, Noida, Gurgaon, Faridabad, Ghaziabad)",
         implementation_year |-> 2017,
         hazardous_days_before_pct |-> before_pct,
         hazardous_days_after_pct |-> after_pct,
         change |-> FSub(after_pct, before_pct),
         assessment |-> IF FLess(FSub(after_pct, before_pct), Num(0, 1))
                        THEN "Reduced hazardous days"
                        ELSE "No improvement in worst days"]

NoGrap == [called |-> FALSE, raised |-> FALSE, result |-> None]

\* mutant: the winter filter applied to self.df itself instead of a copy
AnalyzeGrap_InPlace ==
    /\ grap' = [called |-> TRUE, raised |-> FALSE,
                result |-> Some(analyze_grap_effectiveness(df))]
    /\ df' = WinterData(df)
    /\ UNCHANGED <<sub, reading, aqiResult, ttest, report, slices, health, globals,
                   history, advice, workflow>>

\* one call of analyze_grap_effectiveness on the loaded rows
AnalyzeGrap ==
    \* no statement of the method raises: an empty slice gives NaN
    /\ grap' = [called |-> TRUE, raised |-> FALSE,
                result |-> Some(analyze_grap_effectiveness(df))]
    /\ UNCHANGED <<sub, reading, aqiResult, df, ttest, report, slices, health, globals,
                   history, advice, workflow>>

-----------------------------------------------------------------------------
(* PolicyImpactAnalyzer.calculate_health_cost_impact *)

(* Populations are held in thousands of people, every population of the    *)
(* config being a multiple of 1000, and estimated_health_cost_inr in        *)
(* thousands of rupees; per_capita_cost is in rupees and                    *)
(* estimated_health_cost_crores in crores.                                  *)

\* INDIAN_CITIES, the cities named by the calls and the key the method reads
INDIAN_CITIES ==
    [Delhi |-> [population |-> 32941],
     Noida |-> [population |-> 810],
     Mumbai |-> [population |-> 22120]]

cost_per_poor_day == 250
cost_per_very_poor_day == 500
cost_per_severe_day == 1000

\* self.df[(City == city_name) & (Date.dt.year == year)]
CityData(rows, city_name, year) ==
    {r \in rows : r.City = city_name /\ date_of(r.Date)[1] = year}

days_good(city_data) == Cardinality({r \in city_data : r.AQI >= 0 /\ r.AQI <= 50})
days_satisfactory(city_data) ==
    Cardinality({r \in city_data : r.AQI > 50 /\ r.AQI <= 100})
days_moderate(city_data) ==
    Cardinality({r \in city_data : r.AQI > 100 /\ r.AQI <= 200})

\* mutant: a day of AQI 200 counted as poor
days_poor_From200(city_data) ==
    Cardinality({r \in city_data : r.AQI >= 200 /\ r.AQI <= 300})

days_poor(city_data) == Cardinality({r \in city_data : r.AQI > 200 /\ r.AQI <= 300})
days_very_poor(city_data) ==
    Cardinality({r \in city_data : r.AQI > 300 /\ r.AQI <= 400})

\* mutant: the severe bucket closed at 500
days_severe_UpTo500(city_data) ==
    Cardinality({r \in city_data : r.AQI > 400 /\ r.AQI <= 500})

days_severe(city_data) == Cardinality({r \in city_data : r.AQI > 400})

\* (poor * 250 + very_poor * 500 + severe * 1000) * population / 365
TotalCost(city_data, population) ==
    Num((days_poor(city_data) * cost_per_poor_day
         + days_very_poor(city_data) * cost_per_very_poor_day
         + days_severe(city_data) * cost_per_severe_day) * population, 365)

\* the result: None for a city the config does not know, else <<the dict>>
calculate_health_cost_impact(rows, city_name, year) ==
    IF city_name \notin DOMAIN globals.INDIAN_CITIES THEN None
    ELSE LET city_data == CityData(rows, city_name, year)
             population == globals.INDIAN_CITIES[city_name].population
             total_cost == TotalCost(city_data, population)
         IN  Some([city |-> city_name,
                   year |-> year,
                   population |-> population,
                   days_good |-> days_good(city_data),
                   days_satisfactory |-> days_satisfactory(city_data),
                   days_moderate |-> days_moderate(city_data),
                   days_poor |-> days_poor(city_data),
                   days_very_poor |-> days_very_poor(city_data),
                   days_severe |-> days_severe(city_data),
                   total_unhealthy_days |->
                       days_poor(city_data) + days_very_poor(city_data)
                       + days_severe(city_data),
                   estimated_health_cost_inr |-> total_cost,
                   estimated_health_cost_crores |-> FDiv(total_cost, Num(10000, 1)),
                   per_capita_cost |-> FDiv(total_cost, Num(population, 1))])

\* the arguments of the calls: two known cities and an unknown one, the
\* default year and the year before
RequestedCities == {"Delhi", "Mumbai", "Atlantis"}
RequestedYears == {2023, 2024}

NoHealth == [called |-> FALSE, raised |-> FALSE, city_name |-> "", year |-> 0,
             result |-> None]

\* one call of calculate_health_cost_impact(city_name, year)
CalculateHealthCost ==
    /\ \E city_name \in RequestedCities :
         \E year \in RequestedYears :
            \* every path of the method ends in a return: nothing is raised
            health' = [called |-> TRUE, raised |-> FALSE,
                       city_name |-> city_name, year |-> year,
                       result |-> calculate_health_cost_impact(df, city_name, year)]
    /\ UNCHANGED <<sub, reading, aqiResult, df, ttest, report, slices, grap, globals,
                   history, advice, workflow>>

-----------------------------------------------------------------------------
(* get_aqi_category (src/src/indian_cities_config.py) and                  *)
(* HealthAdvisor.get_recommendation (src/src/health_advisor.py)            *)

(* An AQI value is an integer count x of 1/Scale units: the float the code *)
(* sees is x / Scale.                                                      *)

\* AQI_CATEGORIES, in dict order; range is (min_val, max_val)
AQI_CATEGORIES ==
    << [category |-> "Good", min_val |-> 0, max_val |-> 50, color |-> "#00e400",
        health_impact |-> "Minimal"],
       [category |-> "Satisfactory", min_val |-> 51, max_val |-> 100,
        color |-> "#ffff00",
        health_impact |-> "Minor breathing discomfort for sensitive people"],
       [category |-> "Moderate", min_val |-> 101, max_val |-> 200,
        color |-> "#ff7e00",
        health_impact |-> "Breathing discomfort for people with lung/heart disease"],
       [category |-> "Poor", min_val |-> 201, max_val |-> 300, color |-> "#ff0000",
        health_impact |-> "Breathing discomfort to most people on prolonged exposure"],
       [category |-> "Very Poor", min_val |-> 301, max_val |-> 400,
        color |-> "#99004c",
        health_impact |-> "Respiratory illness on prolonged exposure"],
       [category |-> "Severe", min_val |-> 401, max_val |-> 500, color |-> "#7e0023",
        health_impact |->
            "Affects healthy people, seriously impacts those with existing diseases"] >>

\* min_val <= aqi_value <= max_val
InRange(x, info) == info.min_val * Scale <= x /\ x <= info.max_val * Scale

\* the loop over the categories, and the return that follows it
RECURSIVE CategoryScan(_, _)
CategoryScan(x, i) ==
    IF i > Len(AQI_CATEGORIES) THEN <<"Severe", "#7e0023", "Hazardous">>
    ELSE IF InRange(x, AQI_CATEGORIES[i])
         THEN <<AQI_CATEGORIES[i].category, AQI_CATEGORIES[i].color,
                AQI_CATEGORIES[i].health_impact>>
    ELSE CategoryScan(x, i + 1)

\* (category, color, health_impact)
get_aqi_category(aqi_value) == CategoryScan(aqi_value, 1)

\* HealthAdvisor.RECOMMENDATIONS: the profile keys each category has advice
\* for; the advice itself is named by its category and key
RECOMMENDATIONS ==
    [c \in {"Good", "Satisfactory", "Moderate", "Poor", "Very Poor", "Severe"} |->
        CASE c = "Good" -> {"general", "all"}
          [] c = "Satisfactory" -> {"general", "asthma", "pregnant"}
          [] c = "Moderate" -> {"general", "asthma", "elderly", "children", "athlete"}
          [] c = "Poor" -> {"general", "asthma", "elderly", "children", "pregnant",
                            "athlete"}
          [] c = "Very Poor" -> {"general", "all"}
          [] c = "Severe" -> {"all"}]

\* the returned dict: rec is <<category, key>> of the advice chosen, or
\* <<"default">> when the category has none
get_recommendation(aqi_value, user_profile) ==
    LET found == get_aqi_category(aqi_value)
        category == found[1]
        category_recs == IF category \in DOMAIN RECOMMENDATIONS
                         THEN RECOMMENDATIONS[category] ELSE {}
        rec == IF user_profile \in category_recs THEN <<category, user_profile>>
               ELSE IF "all" \in category_recs THEN <<category, "all">>
               ELSE IF "general" \in category_recs THEN <<category, "general">>
               ELSE <<"default">>
    IN  [rec |-> rec, aqi |-> aqi_value, category |-> category,
         color |-> found[2], health_impact |-> found[3]]

\* the bounds of the ranges
RangeBounds ==
    {AQI_CATEGORIES[i].min_val : i \in 1..Len(AQI_CATEGORIES)}
    \cup {AQI_CATEGORIES[i].max_val : i \in 1..Len(AQI_CATEGORIES)}

\* the AQI values of the calls: every neighbourhood of a range bound, a
\* stride in between, up to Over units above 500
AqiGrid ==
    {x \in 0..((500 + Over) * Scale) :
        \/ x % Stride = 0
        \/ \E b \in RangeBounds : x - b * Scale \in (0 - Near)..Near}

\* a profile with advice of its own in some categories, one with none in
\* some, and a key that is no profile
CalledProfiles == {"general", "asthma", "runner"}

NoAdvice == [called |-> FALSE, raised |-> FALSE, aqi_value |-> 0,
             user_profile |-> "", result |-> None]

\* one call of HealthAdvisor.get_recommendation(aqi_value, user_profile)
GetRecommendation ==
    /\ \E x \in AqiGrid :
         \E user_profile \in CalledProfiles :
            advice' = [called |-> TRUE, raised |-> FALSE, aqi_value |-> x,
                       user_profile |-> user_profile,
                       result |-> Some(get_recommendation(x, user_profile))]
    /\ UNCHANGED <<sub, reading, aqiResult, df, ttest, report, slices, grap, health,
                   globals, history, workflow>>

-----------------------------------------------------------------------------
(* AgentOrchestrator (src/src/agents/orchestrator.py) with the agents it   *)
(* drives: PollutionDetectiveAgent.analyze_city, HealthGuardianAgent       *)
(* .provide_advice and PolicyResearcherAgent.research_recent_policies      *)

(* A dict is a record; the key k is in it when k \in DOMAIN of the record. *)
(* A message is a tuple of its fixed text and what is formatted into it.   *)

\* OpenMeteoAQIClient.get_current_aqi: None for a city without coordinates,
\* None when the fetch fails or no sub-index is defined, the dict otherwise
FetchedReadings == {NoReading, DelhiReading, BengaluruReading}
CurrentAqi(city_name, fetched, r) ==
    IF city_name \notin DOMAIN INDIAN_CITIES \/ ~fetched THEN None
    ELSE LET result == calculate_indian_aqi(r)
         IN  IF result = None THEN None
             ELSE Some([city |-> city_name, aqi |-> Val(result).aqi,
                        category |-> Val(result).category])

\* analyze_city: the error dict when there is no AQI data or when the model
\* call raises, the analysis dict otherwise
analyze_city(city_name, aqi_data, generated) ==
    IF aqi_data = None
    THEN [error |-> <<"Could not fetch data for", city_name>>]
    ELSE IF ~generated
    THEN [error |-> <<"Analysis failed", "e">>]
    ELSE [city |-> city_name, aqi_data |-> Val(aqi_data),
          weather_data |-> <<"weather">>,
          situation_report |-> <<"situation report", city_name>>]

\* provide_advice: the text returned
provide_advice(analysis_result, user_profile, generated) ==
    IF "error" \in DOMAIN analysis_result
    THEN <<"I cannot provide advice">>
    ELSE IF generated THEN <<"advice", analysis_result.city, user_profile>>
    ELSE <<"Advice generation failed", "e">>

\* research_recent_policies: the policies found, or the error dict
research_recent_policies(city, found) ==
    IF found THEN [region |-> city, policies |-> <<"policies">>]
    ELSE [region |-> city, policies |-> <<>>, error |-> <<"e">>]

\* "error" in analysis
HasError(d) == "error" \in DOMAIN d

\* "error" in analysis_result and analysis_result.get("error")
IsErrorResult_Never(d) == FALSE
IsErrorResult(d) == "error" \in DOMAIN d /\ d.error = TRUE

\* run_analysis's early return
ErrorResult(analysis) == [error |-> TRUE, message |-> analysis.error]

\* run_analysis's return after the Guardian
CombinedResult(city_name, analysis, health_advice) ==
    [city |-> city_name, aqi |-> analysis.aqi_data.aqi,
     category |-> analysis.aqi_data.category,
     situation_report |-> analysis.situation_report,
     health_advice |-> health_advice, weather |-> analysis.weather_data]

\* analysis_result["recent_policies"] = policy_result
WithPolicies(analysis_result, policy_result) ==
    [k \in DOMAIN analysis_result \cup {"recent_policies"} |->
        IF k = "recent_policies" THEN policy_result ELSE analysis_result[k]]

EntryPoints == {"run_analysis", "run_full_analysis_with_policy"}
WorkflowCities == {"Delhi", "Mumbai", "Atlantis"}
WorkflowProfiles == {"general", "asthma"}

\* no workflow has been started
Idle == [pc |-> "idle", entry |-> "", city_name |-> "", user_profile |-> "",
         analysis |-> None, result |-> None, invoked |-> <<>>]

\* the caller enters run_analysis or run_full_analysis_with_policy, which
\* calls run_analysis first
StartRun ==
    /\ workflow.pc \in {"idle", "done"}
    /\ \E entry \in EntryPoints :
         \E city_name \in WorkflowCities :
            \E user_profile \in WorkflowProfiles :
               workflow' = [pc |-> "detective", entry |-> entry,
                            city_name |-> city_name,
                            user_profile |-> user_profile, analysis |-> None,
                            result |-> None, invoked |-> <<>>]
    /\ UNCHANGED <<sub, reading, aqiResult, df, ttest, report, slices, grap, health,
                   globals, history, advice>>

\* analysis = self.detective.analyze_city(city_name)
AnalyzeCity ==
    /\ workflow.pc = "detective"
    /\ \E fetched \in BOOLEAN :
         \E r \in FetchedReadings :
            \E generated \in BOOLEAN :
               workflow' =
                  [workflow EXCEPT
                     !.pc = "check",
                     !.invoked = Append(@, "detective"),
                     !.analysis =
                        Some(analyze_city(workflow.city_name,
                                          CurrentAqi(workflow.city_name, fetched, r),
                                          generated))]
    /\ UNCHANGED <<sub, reading, aqiResult, df, ttest, report, slices, grap, health,
                   globals, history, advice>>

\* where run_analysis's return leads: to the caller, or back into
\* run_full_analysis_with_policy
AfterRunAnalysis(entry) ==
    IF entry = "run_analysis" THEN "done" ELSE "full_check"

\* if "error" in analysis: return {"error": True, "message": ...}
CheckAnalysis ==
    /\ workflow.pc = "check"
    /\ IF HasError(Val(workflow.analysis))
       THEN workflow' = [workflow EXCEPT
                            !.pc = AfterRunAnalysis(workflow.entry),
                            !.result = Some(ErrorResult(Val(workflow.analysis)))]
       ELSE workflow' = [workflow EXCEPT !.pc = "guardian"]
    /\ UNCHANGED <<sub, reading, aqiResult, df, ttest, report, slices, grap, health,
                   globals, history, advice>>

\* advice = self.guardian.provide_advice(analysis, user_profile), and the
\* return of the combined dict
ProvideAdvice ==
    /\ workflow.pc = "guardian"
    /\ \E generated \in BOOLEAN :
         workflow' =
            [workflow EXCEPT
               !.pc = AfterRunAnalysis(workflow.entry),
               !.invoked = Append(@, "guardian"),
               !.result =
                  Some(CombinedResult(workflow.city_name, Val(workflow.analysis),
                                      provide_advice(Val(workflow.analysis),
                                                     workflow.user_profile,
                                                     generated)))]
    /\ UNCHANGED <<sub, reading, aqiResult, df, ttest, report, slices, grap, health,
                   globals, history, advice>>

\* if "error" in analysis_result and analysis_result.get("error"):
\*     return analysis_result
CheckResult ==
    /\ workflow.pc = "full_check"
    /\ IF IsErrorResult(Val(workflow.result))
       THEN workflow' = [workflow EXCEPT !.pc = "done"]
       ELSE workflow' = [workflow EXCEPT !.pc = "researcher"]
    /\ UNCHANGED <<sub, reading, aqiResult, df, ttest, report, slices, grap, health,
                   globals, history, advice>>

\* policy_result = self.researcher.research_recent_policies(city=city_name),
\* stored under "recent_policies", and the return
ResearchPolicies ==
    /\ workflow.pc = "researcher"
    /\ \E found \in BOOLEAN :
         workflow' =
            [workflow EXCEPT
               !.pc = "done",
               !.invoked = Append(@, "researcher"),
               !.result =
                  Some(WithPolicies(Val(workflow.result),
                                    research_recent_policies(workflow.city_name,
                                                             found)))]
    /\ UNCHANGED <<sub, reading, aqiResult, df, ttest, report, slices, grap, health,
                   globals, history, advice>>

-----------------------------------------------------------------------------
(* The rows __init__ may have loaded *)

\* rows of the loaded frame
MaxRows == 3

AqiValues == {0, 95, 100}

\* the days on and next to the four bounds of the first period's windows, and
\* the two days around the start of the third period
LoadedDates ==
    LET w == Window(OddEvenPeriods[1])
        v == Window(OddEvenPeriods[3])
    IN  {w.before_start - 1, w.before_start, w.start_date - 1, w.start_date,
         w.end_date, w.end_date + 1, w.after_end, w.after_end + 1,
         v.start_date - 1, v.start_date}

\* two days of AQI 300 before the first period and a day of AQI 250 in it
ExampleRows ==
    LET w == Window(OddEvenPeriods[1])
    IN  {[City |-> "Delhi", Date |-> w.before_start, AQI |-> 300],
         [City |-> "Delhi", Date |-> w.start_date - 1, AQI |-> 300],
         [City |-> "Delhi", Date |-> w.start_date, AQI |-> 250]}

LoadableRows ==
    {[City |-> "Delhi", Date |-> d, AQI |-> a] : d \in LoadedDates, a \in AqiValues}
    \cup {[City |-> "Mumbai", Date |-> Window(OddEvenPeriods[1]).start_date, AQI |-> 100]}
    \cup ExampleRows

\* the sets of at most k rows of S
RECURSIVE SubsetsUpTo(_, _)
SubsetsUpTo(S, k) ==
    IF k = 0 THEN {{}}
    ELSE LET smaller == SubsetsUpTo(S, k - 1)
         IN  smaller \cup {T \cup {x} : T \in smaller, x \in S}

Datasets == SubsetsUpTo(LoadableRows, MaxRows)

\* the answers ttest_ind may give for periods i, i + 1, ... on the rows loaded
RECURSIVE TTestAnswers(_, _)
TTestAnswers(rows, i) ==
    IF i > Len(OddEvenPeriods) THEN {<<>>}
    ELSE LET f == Frames(rows, OddEvenPeriods[i])
         IN  {<<p>> \o rest : p \in TTestOutcomes(f.before, f.during),
                              rest \in TTestAnswers(rows, i + 1)}

\* rows for analyze_grap_effectiveness: the days on both sides of the start
\* of October, of 2017 and of March, with AQI on both sides of 300, for an NCR
\* city; the days around 2017 for a second NCR city; a row of another city
GrapRows ==
    {[City |-> "Delhi", Date |-> to_datetime(d), AQI |-> a] :
        d \in {<<2016, 9, 30>>, <<2016, 10, 1>>, <<2016, 12, 31>>,
               <<2017, 1, 1>>, <<2017, 2, 28>>, <<2017, 3, 1>>},
        a \in {300, 301}}
    \cup {[City |-> "Noida", Date |-> to_datetime(d), AQI |-> 301] :
             d \in {<<2016, 12, 31>>, <<2017, 1, 1>>}}
    \cup {[City |-> "Mumbai", Date |-> to_datetime(<<2016, 12, 31>>), AQI |-> 301]}

GrapDatasets == SubsetsUpTo(GrapRows, MaxRows)

\* rows for calculate_health_cost_impact: the first and last day of 2024 and
\* the day before, with an AQI in each bucket and on the bound 200, for one
\* city; a row of another city
HealthRows ==
    {[City |-> "Delhi", Date |-> to_datetime(d), AQI |-> a] :
        d \in {<<2023, 12, 31>>, <<2024, 1, 1>>, <<2024, 12, 31>>},
        a \in {50, 100, 200, 201, 301, 401}}
    \cup {[City |-> "Mumbai", Date |-> to_datetime(<<2024, 1, 1>>), AQI |-> 201]}

HealthDatasets == SubsetsUpTo(HealthRows, MaxRows)

\* the greatest AQI of a loaded day, the scale ending at 500
MaxAqi == 505

\* the datasets of one Delhi day of 2024, one for every integer AQI
OneDayDatasets ==
    {{[City |-> "Delhi", Date |-> to_datetime(<<2024, 1, 1>>), AQI |-> a]} :
        a \in 0..MaxAqi}

\* the tables as the modules define them at import
ModuleGlobals ==
    [INDIAN_AQI_BREAKPOINTS |-> INDIAN_AQI_BREAKPOINTS,
     INDIAN_AQI_CATEGORIES |-> INDIAN_AQI_CATEGORIES,
     POLICY_INTERVENTIONS |-> POLICY_INTERVENTIONS,
     INDIAN_CITIES |-> INDIAN_CITIES]

InitRest ==
    /\ globals = ModuleGlobals
    /\ grap = NoGrap
    /\ health = NoHealth
    /\ history = {}
    /\ advice = NoAdvice
    /\ workflow = Idle
    /\ sub = NoCall
    /\ reading = NoReading
    /\ aqiResult = NotCalled
    /\ df = {}
    /\ ttest = [i \in 1..Len(OddEvenPeriods) |-> NaN]
    /\ report = NoReport
    /\ slices = <<>>

InitSub == InitRest
NextSub == CallSubIndex
SpecSub == InitSub /\ [][NextSub]_vars

\* the calculator called once on each reading of Readings
InitAqi ==
    /\ globals = ModuleGlobals
    /\ grap = NoGrap
    /\ health = NoHealth
    /\ history = {}
    /\ advice = NoAdvice
    /\ workflow = Idle
    /\ reading \in Readings \cup {DelhiReading, BengaluruReading}
    /\ sub = NoCall
    /\ aqiResult = NotCalled
    /\ df = {}
    /\ ttest = [i \in 1..Len(OddEvenPeriods) |-> NaN]
    /\ report = NoReport
    /\ slices = <<>>

NextAqi == CallIndianAqi
SpecAqi == InitAqi /\ [][NextAqi]_vars

\* the analyzer constructed on each dataset of Datasets, then called
InitPolicy ==
    /\ globals = ModuleGlobals
    /\ grap = NoGrap
    /\ health = NoHealth
    /\ history = {}
    /\ advice = NoAdvice
    /\ workflow = Idle
    /\ df \in Datasets
    /\ ttest \in TTestAnswers(df, 1)
    /\ sub = NoCall
    /\ reading = NoReading
    /\ aqiResult = NotCalled
    /\ report = NoReport
    /\ slices = <<>>

NextPolicy == AnalyzeOddEven
SpecPolicy == InitPolicy /\ [][NextPolicy]_vars

\* the analyzer constructed on each dataset of GrapDatasets, then called
InitGrap ==
    /\ globals = ModuleGlobals
    /\ df \in GrapDatasets
    /\ ttest = [i \in 1..Len(OddEvenPeriods) |-> NaN]
    /\ sub = NoCall
    /\ reading = NoReading
    /\ aqiResult = NotCalled
    /\ report = NoReport
    /\ slices = <<>>
    /\ grap = NoGrap
    /\ health = NoHealth
    /\ history = {}
    /\ advice = NoAdvice
    /\ workflow = Idle

NextGrap == AnalyzeGrap
SpecGrap == InitGrap /\ [][NextGrap]_vars

\* the analyzer constructed on each dataset of HealthDatasets, then called
InitHealth ==
    /\ globals = ModuleGlobals
    /\ df \in HealthDatasets \cup OneDayDatasets
    /\ ttest = [i \in 1..Len(OddEvenPeriods) |-> NaN]
    /\ sub = NoCall
    /\ reading = NoReading
    /\ aqiResult = NotCalled
    /\ report = NoReport
    /\ slices = <<>>
    /\ grap = NoGrap
    /\ health = NoHealth
    /\ history = {}
    /\ advice = NoAdvice
    /\ workflow = Idle

NextHealth == CalculateHealthCost
SpecHealth == InitHealth /\ [][NextHealth]_vars

\* rows of a session: the day before and the first day of the first odd-even
\* period, the first day of GRAP, a day of 2024, and a row of a city outside
\* the NCR
SessionRows ==
    {[City |-> "Delhi", Date |-> to_datetime(<<2015, 12, 31>>), AQI |-> 100],
     [City |-> "Delhi", Date |-> to_datetime(<<2016, 1, 1>>), AQI |-> 95],
     [City |-> "Delhi", Date |-> to_datetime(<<2017, 1, 1>>), AQI |-> 301],
     [City |-> "Delhi", Date |-> to_datetime(<<2024, 1, 1>>), AQI |-> 201],
     [City |-> "Mumbai", Date |-> to_datetime(<<2024, 1, 1>>), AQI |-> 201]}

SessionDatasets == SubsetsUpTo(SessionRows, MaxRows)
SessionReadings == {DelhiReading, BengaluruReading}
SessionPollutants == {"PM2.5", "PM1"}
SessionConcentrations == {None, Some(187 * Scale)}

\* a process that has imported both modules and built one analyzer, and then
\* calls the calculator functions and the analyzer methods in any order, any
\* number of times
InitSession ==
    /\ globals = ModuleGlobals
    /\ df \in SessionDatasets
    /\ ttest \in TTestAnswers(df, 1)
    /\ sub = NoCall
    /\ reading = NoReading
    /\ aqiResult = NotCalled
    /\ report = NoReport
    /\ slices = <<>>
    /\ grap = NoGrap
    /\ health = NoHealth
    /\ history = {}
    /\ advice = NoAdvice
    /\ workflow = Idle

NextSession ==
    \/ \E p \in SessionPollutants : \E c \in SessionConcentrations : SubIndexCall(p, c)
    \/ \E r \in SessionReadings : IndianAqiCall(r)
    \/ AnalyzeOddEven
    \/ AnalyzeGrap
    \/ CalculateHealthCost

SpecSession == InitSession /\ [][NextSession]_vars

\* get_recommendation called again and again
InitAdvice == InitRest
NextAdvice == GetRecommendation
SpecAdvice == InitAdvice /\ [][NextAdvice]_vars

\* workflows run one after another
InitWorkflow == InitRest
NextWorkflow ==
    \/ StartRun
    \/ AnalyzeCity
    \/ CheckAnalysis
    \/ ProvideAdvice
    \/ CheckResult
    \/ ResearchPolicies
SpecWorkflow == InitWorkflow /\ [][NextWorkflow]_vars

-----------------------------------------------------------------------------
(* Properties of calculate_indian_aqi, under SpecAqi *)

Returned == aqiResult.called /\ ~IsNone(aqiResult.result)
TheResult == Val(aqiResult.result)
ValuesOf(items) == {items[i][2] : i \in 1..Len(items)}
KeysOf(items) == {items[i][1] : i \in 1..Len(items)}
ValueAt(items, k) == items[CHOOSE i \in 1..Len(items) : items[i][1] = k][2]

\* C1: whenever calculate_indian_aqi returns a result, its aqi is the greatest
\* value of sub_indices and is the value sub_indices holds for
\* dominant_pollutant.
C1_Dominance ==
    Returned =>
        /\ TheResult.aqi \in ValuesOf(TheResult.sub_indices)
        /\ \A v \in ValuesOf(TheResult.sub_indices) : v <= TheResult.aqi
        /\ TheResult.dominant_pollutant \in KeysOf(TheResult.sub_indices)
        /\ ValueAt(TheResult.sub_indices, TheResult.dominant_pollutant) = TheResult.aqi

\* a result with several unequal sub-indices whose dominant pollutant is not
\* the first one supplied
C1_Witness ==
    /\ Returned
    /\ Len(TheResult.sub_indices) >= 3
    /\ Cardinality(ValuesOf(TheResult.sub_indices)) >= 2
    /\ TheResult.dominant_pollutant # TheResult.sub_indices[1][1]

SixCategories == {"Good", "Satisfactory", "Moderate", "Poor", "Very Poor", "Severe"}

\* C2: whenever calculate_indian_aqi returns a result, its category is one of
\* the six bands (never "Unknown"), the band of that name contains aqi, and
\* color and health_impact are those of that band.
C2_CategoryContainment ==
    Returned =>
        /\ TheResult.category \in SixCategories
        /\ \E i \in 1..Len(INDIAN_AQI_CATEGORIES) :
              /\ INDIAN_AQI_CATEGORIES[i].category = TheResult.category
              /\ INDIAN_AQI_CATEGORIES[i].low <= TheResult.aqi
              /\ TheResult.aqi <= INDIAN_AQI_CATEGORIES[i].high
              /\ INDIAN_AQI_CATEGORIES[i].color = TheResult.color
              /\ INDIAN_AQI_CATEGORIES[i].health_impact = TheResult.health_impact

\* a result whose aqi sits on the upper bound of a band below the last
C2_Witness ==
    /\ Returned
    /\ TheResult.aqi = 100
    /\ TheResult.category = "Satisfactory"

\* every supplied concentration of the reading is absent or has no sub-index
NoValidConcentration ==
    \A i \in 1..Len(Pollutants) :
        \/ IsNone(reading[KeywordOf(Pollutants[i])])
        \/ IsNone(calculate_sub_index(reading[KeywordOf(Pollutants[i])], Pollutants[i]))

C15_BengaluruWithin20 ==
    (aqiResult.called /\ reading = BengaluruReading) =>
        /\ Returned
        /\ Abs(TheResult.aqi - 163) < 20
        /\ TheResult.category = "Moderate"

\* C16: the self-test call for Delhi, pm25 = 187 and pm10 = 254, returns
\* aqi = 352 with dominant_pollutant 'PM2.5' and category 'Very Poor', the
\* PM10 sub-index being lower than 352.
C16_Delhi352 ==
    (aqiResult.called /\ reading = DelhiReading) =>
        /\ Returned
        /\ TheResult.aqi = 352
        /\ TheResult.dominant_pollutant = "PM2.5"
        /\ TheResult.category = "Very Poor"
        /\ "PM10" \in KeysOf(TheResult.sub_indices)
        /\ ValueAt(TheResult.sub_indices, "PM10") < 352

\* the Delhi call answered, with the two sub-indices the self-test prints
C16_Witness ==
    /\ aqiResult.called
    /\ reading = DelhiReading
    /\ Returned
    /\ TheResult.sub_indices = << <<"PM2.5", 352>>, <<"PM10", 204>> >>

-----------------------------------------------------------------------------
(* Properties of analyze_odd_even_scheme, under SpecPolicy *)

PeriodIndex == 1..Len(OddEvenPeriods)

SomeSliceEmpty ==
    \E i \in PeriodIndex :
        slices[i].before = {} \/ slices[i].during = {} \/ slices[i].after = {}

\* C8 as claimed: when the before, during or after slice of some period is
\* empty, analyze_odd_even_scheme fails with an insufficient-data error and
\* returns no report row.
C8_RaisesInsufficientData ==
    (report.called /\ SomeSliceEmpty) => (report.raised /\ report.rows = <<>>)

\* a <= b; every comparison with NaN is False
AtMost(a, b) == FLess(a, b) \/ (~IsNaN(a) /\ a = b)

\* C9 as claimed: a row is 'Effective' exactly when its percentage change
\* during the intervention is <= -5 and its p-value is < 0.05, and is
\* 'Limited/No Effect' otherwise.
C9_EffectiveIffAtMostMinus5 ==
    report.called =>
        \A i \in PeriodIndex :
            /\ report.rows[i].effectiveness \in {"Effective", "Limited/No Effect"}
            /\ report.rows[i].effectiveness = "Effective" <=>
                  /\ AtMost(report.rows[i].pct_change_during, Num(0 - 5, 1))
                  /\ FLess(report.rows[i].p_value, Num(5, 100))

\* C9 as amended: a row is 'Effective' exactly when its percentage change
\* during the intervention is < -5 (the boundary -5 excluded) and its p-value
\* is < 0.05, and is 'Limited/No Effect' otherwise.
C9_EffectiveIffBelowMinus5 ==
    report.called =>
        \A i \in PeriodIndex :
            /\ report.rows[i].effectiveness \in {"Effective", "Limited/No Effect"}
            /\ report.rows[i].effectiveness = "Effective" <=>
                  /\ FLess(report.rows[i].pct_change_during, Num(0 - 5, 1))
                  /\ FLess(report.rows[i].p_value, Num(5, 100))

\* a row whose percentage change is exactly -5 with a p-value below 0.05,
\* reported 'Limited/No Effect'
C9_Witness ==
    /\ report.called
    /\ \E i \in PeriodIndex :
          /\ report.rows[i].pct_change_during = Num(0 - 5, 1)
          /\ FLess(report.rows[i].p_value, Num(5, 100))
          /\ report.rows[i].effectiveness = "Limited/No Effect"

\* C10: for every period the before, during and after slices are pairwise
\* disjoint, lie in [start - 15, start), [start, end] and (end, end + 15], and
\* together hold every Delhi row dated in [start - 15, end + 15]: each such
\* row is in exactly one slice, and every other row in none.
C10_Partition ==
    report.called =>
        \A i \in PeriodIndex :
            LET s == to_datetime(OddEvenPeriods[i].start)
                e == to_datetime(OddEvenPeriods[i].end)
                f == slices[i]
            IN  /\ f.before \cap f.during = {}
                /\ f.before \cap f.after = {}
                /\ f.during \cap f.after = {}
                /\ \A r \in f.before : s - 15 <= r.Date /\ r.Date < s
                /\ \A r \in f.during : s <= r.Date /\ r.Date <= e
                /\ \A r \in f.after : e < r.Date /\ r.Date <= e + 15
                /\ f.before \cup f.during \cup f.after =
                      {r \in df : r.City = "Delhi" /\ s - 15 <= r.Date /\ r.Date <= e + 15}
                /\ \A r \in df :
                      Cardinality({m \in {"before", "during", "after"} :
                                      r \in f[m]})
                      = IF r.City = "Delhi" /\ s - 15 <= r.Date /\ r.Date <= e + 15
                        THEN 1 ELSE 0

\* a call in which a period has rows in all three slices, one of them dated
\* on the period's end
C10_Witness ==
    /\ report.called
    /\ \E i \in PeriodIndex :
          /\ slices[i].before # {} /\ slices[i].after # {}
          /\ \E r \in slices[i].during : r.Date = to_datetime(OddEvenPeriods[i].end)

\* C11 as claimed: every report row carries a finite pct_change_during, never
\* infinite and never NaN, the rows whose before slice holds only AQI 0
\* included. Stated here for the periods whose before and during slices both
\* hold rows, so that the baseline mean exists.
C11_FinitePctChange ==
    report.called =>
        \A i \in PeriodIndex :
            (slices[i].before # {} /\ slices[i].during # {}) =>
                IsNum(report.rows[i].pct_change_during)

\* C21: the report has exactly one row per period of the catalog, the i-th
\* row being that of the i-th period, and every row equals the single row
\* returned when its period is the only one in the catalog.
C21_OneRowPerPeriod ==
    report.called =>
        /\ Len(report.rows) = Len(OddEvenPeriods)
        /\ \A i \in PeriodIndex :
              /\ report.rows[i].period = <<OddEvenPeriods[i].start, OddEvenPeriods[i].end>>
              /\ report.rows[i] =
                    OddEvenReport(<<OddEvenPeriods[i]>>, df, <<ttest[i]>>)[1]

\* a report over rows of the first and of the third period, whose two rows
\* carry different baselines
C21_Witness ==
    /\ report.called
    /\ IsNum(report.rows[1].before_aqi)
    /\ IsNum(report.rows[3].before_aqi)
    /\ report.rows[1].before_aqi # report.rows[3].before_aqi
    /\ IsNaN(report.rows[2].before_aqi)

\* C24: a row whose before mean is 300 and whose during mean is 250, with a
\* p-value of 0.02, has a pct_change_during that rounds to -16.7 at one
\* decimal, statistically_significant true and effectiveness 'Effective'.
C24_WorkedExample ==
    report.called =>
        \A i \in PeriodIndex :
            (/\ report.rows[i].before_aqi = Num(300, 1)
             /\ report.rows[i].during_aqi = Num(250, 1)
             /\ report.rows[i].p_value = Num(20, 1000)) =>
                /\ IsNum(report.rows[i].pct_change_during)
                /\ PyRound(10 * report.rows[i].pct_change_during.n,
                           report.rows[i].pct_change_during.d) = 0 - 167
                /\ report.rows[i].statistically_significant
                /\ report.rows[i].effectiveness = "Effective"

\* a report over two days of AQI 300 before the first period and a day of
\* AQI 250 in it, the t-test answering 0.02
C24_Witness ==
    /\ report.called
    /\ report.rows[1].before_aqi = Num(300, 1)
    /\ report.rows[1].during_aqi = Num(250, 1)
    /\ report.rows[1].p_value = Num(20, 1000)
    /\ report.rows[1].pct_change_during = Num(0 - 50, 3)
    /\ Cardinality(slices[1].before) = 2

-----------------------------------------------------------------------------
(* Properties of analyze_grap_effectiveness, under SpecGrap *)

\* C12 as claimed: when the before-cutover or the at/after-cutover slice of
\* NCR winter rows has no day, analyze_grap_effectiveness fails with an
\* insufficient-data error and reports no hazardous-day percentage.
C12_RaisesInsufficientData ==
    (grap.called /\ (BeforeGrap(df) = {} \/ AfterGrap(df) = {})) =>
        (grap.raised /\ IsNone(grap.result))

\* the rows C22 speaks of: NCR city, month October to February
NcrWinterRows ==
    {r \in df : /\ r.City \in {"Delhi", "Noida", "Gurgaon", "Faridabad", "Ghaziabad"}
                /\ date_of(r.Date)[2] \in {10, 11, 12, 1, 2}}

\* the percentage of the rows of S with AQI above 300, S holding rows
PctAbove300(S) == Num(100 * Cardinality({r \in S : r.AQI > 300}), Cardinality(S))

\* C22: the before and after slices partition the NCR winter rows at
\* 2017-01-01 and hold no other row; the percentage reported for a slice that
\* holds rows is that of its rows with AQI > 300; change is the after
\* percentage minus the before percentage; the assessment is 'Reduced
\* hazardous days' exactly when change < 0.
C22_GrapComputation ==
    grap.called =>
        LET res == Val(grap.result)
            before == {r \in NcrWinterRows : r.Date < to_datetime(<<2017, 1, 1>>)}
            after == {r \in NcrWinterRows : r.Date >= to_datetime(<<2017, 1, 1>>)}
        IN  /\ BeforeGrap(df) = before /\ AfterGrap(df) = after
            /\ before \cap after = {} /\ before \cup after = NcrWinterRows
            /\ before # {} => res.hazardous_days_before_pct = PctAbove300(before)
            /\ after # {} => res.hazardous_days_after_pct = PctAbove300(after)
            /\ res.change =
                  FSub(res.hazardous_days_after_pct, res.hazardous_days_before_pct)
            /\ res.assessment \in {"Reduced hazardous days",
                                   "No improvement in worst days"}
            /\ res.assessment = "Reduced hazardous days" <=>
                  FLess(res.change, Num(0, 1))

\* a call over a row of AQI exactly 300 after the cutover, a hazardous row
\* before it and a row outside the NCR winter rows, answered 'Reduced
\* hazardous days'
C22_Witness ==
    /\ grap.called
    /\ \E r \in AfterGrap(df) : r.AQI = 300
    /\ \E r \in BeforeGrap(df) : r.AQI = 301
    /\ df \ NcrWinterRows # {}
    /\ Val(grap.result).assessment = "Reduced hazardous days"
    /\ Val(grap.result).change = Num(0 - 100, 1)

-----------------------------------------------------------------------------
(* Properties of calculate_health_cost_impact, under SpecHealth *)

KnownCity == health.called /\ health.city_name \in DOMAIN INDIAN_CITIES
RequestedData == CityData(df, health.city_name, health.year)

\* C13 as claimed: when the dataset has no row for the requested city and
\* year, calculate_health_cost_impact fails with a no-data error and returns
\* no report.
C13_RaisesNoData ==
    (KnownCity /\ RequestedData = {}) => (health.raised /\ IsNone(health.result))

\* C14: for a city-year that has rows, none of them with AQI above 200, the
\* call raises nothing and returns a report whose estimated_health_cost_inr
\* is 0 and whose total_unhealthy_days is 0.
C14_AllGoodDaysCostNothing ==
    (KnownCity /\ RequestedData # {} /\ \A r \in RequestedData : r.AQI <= 200) =>
        /\ ~health.raised
        /\ ~IsNone(health.result)
        /\ Val(health.result).estimated_health_cost_inr = Num(0, 1)
        /\ Val(health.result).total_unhealthy_days = 0

\* a call for a city-year whose rows include a day of AQI exactly 200, other
\* rows of the dataset being unhealthy days of another year or city
C14_Witness ==
    /\ KnownCity
    /\ \E r \in RequestedData : r.AQI = 200
    /\ \A r \in RequestedData : r.AQI <= 200
    /\ \E r \in df \ RequestedData : r.AQI > 200
    /\ ~IsNone(health.result)
    /\ Val(health.result).estimated_health_cost_inr = Num(0, 1)
    /\ Val(health.result).days_moderate >= 1

\* the category calculate_indian_aqi gives an aqi of 0..500, and 'Severe'
\* above 500
CalculatorCategory(aqi) ==
    IF aqi > 500 THEN "Severe" ELSE CategoryInfo(aqi, 1).category

DaysOfCategory(c) ==
    Cardinality({r \in RequestedData : CalculatorCategory(r.AQI) = c})

\* C23: each bucket of the report counts the days of the city-year whose AQI
\* the calculator's bands place in the category of the bucket's name, a day
\* above 500 being severe; every day is counted in exactly one bucket.
C23_BucketsAreCategories ==
    (KnownCity /\ \A r \in RequestedData : r.AQI >= 0) =>
        LET res == Val(health.result)
        IN  /\ res.days_good = DaysOfCategory("Good")
            /\ res.days_satisfactory = DaysOfCategory("Satisfactory")
            /\ res.days_moderate = DaysOfCategory("Moderate")
            /\ res.days_poor = DaysOfCategory("Poor")
            /\ res.days_very_poor = DaysOfCategory("Very Poor")
            /\ res.days_severe = DaysOfCategory("Severe")
            /\ res.days_good + res.days_satisfactory + res.days_moderate
               + res.days_poor + res.days_very_poor + res.days_severe
               = Cardinality(RequestedData)

\* a call for a city-year whose only day has the greatest AQI loaded, above
\* 500, counted as severe
C23_Witness ==
    /\ KnownCity
    /\ \E r \in RequestedData : r.AQI = MaxAqi /\ r.AQI > 500
    /\ Val(health.result).days_severe = 1
    /\ Val(health.result).total_unhealthy_days = 1

-----------------------------------------------------------------------------
(* Properties of calculate_sub_index, under SpecSub *)

KnownPollutant(c) == c.pollutant \in DOMAIN INDIAN_AQI_BREAKPOINTS
HasConcentration(c) == c.called /\ KnownPollutant(c) /\ ~IsNone(c.concentration)
Defined(c) == HasConcentration(c) /\ ~IsNone(c.result)

\* C3 as claimed: for a known pollutant and any concentration >= 0, values
\* between two brackets included, calculate_sub_index returns an integer in
\* 0..500 and never None.
C3_TotalOnNonNegative ==
    (HasConcentration(sub) /\ Val(sub.concentration) >= 0) =>
        (~IsNone(sub.result) /\ Val(sub.result) \in 0..500)

\* C4: between two calls for the same pollutant with concentrations
\* 0 <= c1 <= c2 whose sub-indices are both defined, the sub-index of c1 is at
\* most that of c2.
C4_MonotoneStep ==
    (/\ Defined(sub) /\ Defined(sub')
     /\ sub.pollutant = sub'.pollutant
     /\ 0 <= Val(sub.concentration)
     /\ Val(sub.concentration) <= Val(sub'.concentration))
    => Val(sub.result) <= Val(sub'.result)

C4_Monotonicity == [][C4_MonotoneStep]_vars

\* a call above the last bracket, answered with the ceiling
C4_Witness ==
    /\ Defined(sub)
    /\ Val(sub.concentration) > TopOf(sub.pollutant) * Scale
    /\ Val(sub.result) = 500

\* sub is the call at c_high of bracket i and sub' the call at c_low of
\* bracket i + 1 of the same pollutant
AdjacentBounds(i) ==
    /\ HasConcentration(sub) /\ HasConcentration(sub')
    /\ sub.pollutant = sub'.pollutant
    /\ i + 1 <= Len(INDIAN_AQI_BREAKPOINTS[sub.pollutant])
    /\ Val(sub.concentration) = INDIAN_AQI_BREAKPOINTS[sub.pollutant][i][2] * Scale
    /\ Val(sub'.concentration) = INDIAN_AQI_BREAKPOINTS[sub.pollutant][i + 1][1] * Scale

\* C5 as claimed: the sub-index at c_high of bracket i equals the sub-index at
\* c_low of bracket i + 1.
C5_Continuity ==
    [][\A i \in 1..5 : AdjacentBounds(i) => sub.result = sub'.result]_vars

\* C5 as amended: both are defined and the sub-index at c_low of bracket i + 1
\* is the sub-index at c_high of bracket i plus 1.
C5_StepOfOne ==
    [][\A i \in 1..5 : AdjacentBounds(i) =>
          /\ ~IsNone(sub.result) /\ ~IsNone(sub'.result)
          /\ Val(sub'.result) = Val(sub.result) + 1]_vars

\* a call at c_low of a bracket after the first, answered with that bracket's
\* i_low
C5_Witness ==
    /\ Defined(sub)
    /\ \E i \in 2..Len(INDIAN_AQI_BREAKPOINTS[sub.pollutant]) :
          /\ Val(sub.concentration) = INDIAN_AQI_BREAKPOINTS[sub.pollutant][i][1] * Scale
          /\ Val(sub.result) = INDIAN_AQI_BREAKPOINTS[sub.pollutant][i][3]
          /\ Val(sub.result) = INDIAN_AQI_BREAKPOINTS[sub.pollutant][i - 1][4] + 1

C17_CeilingClamp ==
    (HasConcentration(sub)
     /\ Val(sub.concentration) > TopOf(sub.pollutant) * Scale) =>
        /\ ~IsNone(sub.result)
        /\ Val(sub.result) = 500
        /\ \A i \in 1..Len(INDIAN_AQI_BREAKPOINTS[sub.pollutant]) :
              INDIAN_AQI_BREAKPOINTS[sub.pollutant][i][4] <= Val(sub.result)

\* a call one grid step above the last bracket, and one as far above it as
\* the grid goes, both answered 500
C17_Witness ==
    /\ HasConcentration(sub)
    /\ Val(sub.concentration) \in {TopOf(sub.pollutant) * Scale + 1,
                                   (TopOf(sub.pollutant) + Over) * Scale}
    /\ sub.result = Some(500)
    /\ sub.pollutant = "CO"

\* the brackets of table t: ordered, c_low < c_high, each c_low one table
\* step after the previous c_high, each i_low the previous i_high + 1, the
\* first bracket starting at concentration 0 and index 0, the last i_high 500
WellFormedTable(t) ==
    /\ Len(t) >= 1
    /\ t[1][1] = 0 /\ t[1][3] = 0
    /\ t[Len(t)][4] = 500
    /\ \A i \in 1..Len(t) : t[i][1] < t[i][2] /\ t[i][3] < t[i][4]
    /\ \A i \in 2..Len(t) :
          /\ t[i][1] = t[i - 1][2] + 1
          /\ t[i][3] = t[i - 1][4] + 1

\* C18: every pollutant's breakpoint table is well formed, before and after
\* every call.
C18_TableInvariant ==
    \A p \in DOMAIN globals.INDIAN_AQI_BREAKPOINTS :
        WellFormedTable(globals.INDIAN_AQI_BREAKPOINTS[p])

\* a call answered from the CO table, whose second bracket starts at 1.1 mg/m3,
\* one step of 0.1 after the end of the first
C18_Witness ==
    /\ Defined(sub)
    /\ sub.pollutant = "CO"
    /\ Cardinality(DOMAIN globals.INDIAN_AQI_BREAKPOINTS) = 6
    /\ globals.INDIAN_AQI_BREAKPOINTS["CO"][1][2] = 10
    /\ globals.INDIAN_AQI_BREAKPOINTS["CO"][2][1] = 11
    /\ Val(sub.concentration) = 11 * Scale
    /\ Val(sub.result) = 51

-----------------------------------------------------------------------------
(* Properties of a session of calls, under SpecSession *)

\* C19: no call of calculate_sub_index, calculate_indian_aqi or an analysis
\* method changes the breakpoint tables, the category bands, the intervention
\* catalog, the city config or the analyzer's loaded rows: after every call
\* they are what they were before it, hence what they were before the first.
C19_ReadOnlyStep ==
    /\ globals' = globals
    /\ df' = df
    /\ globals'.INDIAN_AQI_BREAKPOINTS = INDIAN_AQI_BREAKPOINTS
    /\ globals'.INDIAN_AQI_CATEGORIES = INDIAN_AQI_CATEGORIES
    /\ globals'.POLICY_INTERVENTIONS = POLICY_INTERVENTIONS

C19_ReadOnly == [][C19_ReadOnlyStep]_vars

\* every function and method has been called on rows of an NCR city and of
\* another city, the calculator more than once, and the tables are intact
C19_Witness ==
    /\ sub.called /\ ~IsNone(sub.result)
    /\ Cardinality(history) >= 3
    /\ report.called /\ grap.called /\ health.called
    /\ \E r \in df : r.City = "Mumbai"
    /\ \E r \in df : r.City = "Delhi"
    /\ globals = ModuleGlobals

\* C20: every calculate_indian_aqi call with a reading returns what every
\* earlier call with that reading returned, whatever was called in between;
\* and an analyzer method called again returns the report it returned before.
C20_IdempotentStep ==
    /\ \A a \in history' : \A b \in history' :
          a.reading = b.reading => a.result = b.result
    /\ (report.called /\ report'.called) => (report' = report /\ slices' = slices)
    /\ (grap.called /\ grap'.called) => grap' = grap
    /\ (/\ health.called /\ health'.called
        /\ health'.city_name = health.city_name
        /\ health'.year = health.year) => health' = health

-----------------------------------------------------------------------------
(* Properties of get_aqi_category and get_recommendation, under SpecAdvice *)

\* C25 as claimed: for every AQI value >= 0, integer or fractional, the
\* category returned is that of a band whose range contains the value, or
\* 'Severe' above 500; 'Severe' is returned only for values above 400, and
\* the advice given is Severe-band advice only for values above 400.
C25_TotalBandLookup ==
    (advice.called /\ advice.aqi_value >= 0) =>
        LET res == Val(advice.result)
        IN  /\ \/ advice.aqi_value > 500 * Scale /\ res.category = "Severe"
               \/ \E i \in 1..Len(AQI_CATEGORIES) :
                     /\ AQI_CATEGORIES[i].category = res.category
                     /\ AQI_CATEGORIES[i].min_val * Scale <= advice.aqi_value
                     /\ advice.aqi_value <= AQI_CATEGORIES[i].max_val * Scale
            /\ res.category = "Severe" => advice.aqi_value > 400 * Scale
            /\ res.rec[1] = "Severe" => advice.aqi_value > 400 * Scale

-----------------------------------------------------------------------------
(* Properties of the agent workflow, under SpecWorkflow *)

AgentInvoked(agent) ==
    \E i \in 1..Len(workflow.invoked) : workflow.invoked[i] = agent

DetectiveFailed ==
    workflow.analysis /= None /\ "error" \in DOMAIN Val(workflow.analysis)

\* C30: the Guardian is invoked only after the Detective has returned an
\* analysis without an 'error' key; when the Detective returns an error,
\* run_analysis returns {error: True, message: the Detective's error}, the
\* Guardian is never invoked, and run_full_analysis_with_policy returns that
\* same result without invoking the Researcher.
C30_WorkflowOrdering ==
    /\ (workflow.pc = "guardian" \/ AgentInvoked("guardian")) =>
          /\ workflow.invoked[1] = "detective"
          /\ workflow.analysis /= None
          /\ "error" \notin DOMAIN Val(workflow.analysis)
    /\ DetectiveFailed =>
          /\ ~AgentInvoked("guardian")
          /\ ~AgentInvoked("researcher")
          /\ workflow.pc /= "researcher"
          /\ workflow.pc \in {"full_check", "done"} =>
                workflow.result =
                   Some([error |-> TRUE,
                         message |-> Val(workflow.analysis).error])

\* run_full_analysis_with_policy has returned the error result of a failed
\* Detective
C30_Witness ==
    /\ workflow.pc = "done"
    /\ workflow.entry = "run_full_analysis_with_policy"
    /\ DetectiveFailed
    /\ workflow.invoked = <<"detective">>
    /\ Val(workflow.result).error = TRUE

-----------------------------------------------------------------------------
(* Properties of calculate_indian_aqi on readings with undefined and with  *)
(* equal sub-indices, under SpecAqi                                        *)

\* pollutant p is supplied in the reading and its sub-index is undefined
SuppliedUndefined(p) ==
    /\ reading[KeywordOf(p)] /= None
    /\ calculate_sub_index(reading[KeywordOf(p)], p) = None

\* C26: a supplied pollutant whose sub-index is undefined is left out of
\* sub_indices and has no effect on the result: the call returns what it
\* returns for the same reading with that pollutant absent (aqi, category,
\* dominant_pollutant and the other sub-indices alike).
C26_UndefinedHasNoEffect ==
    aqiResult.called =>
        \A i \in 1..Len(Pollutants) :
            SuppliedUndefined(Pollutants[i]) =>
                /\ aqiResult.result /= None =>
                      Pollutants[i] \notin KeysOf(Val(aqiResult.result).sub_indices)
                /\ aqiResult.result =
                      calculate_indian_aqi(
                          [reading EXCEPT ![KeywordOf(Pollutants[i])] = None])

\* a call whose first pollutant has an undefined sub-index and which still
\* returns a result from the others
C26_Witness ==
    /\ aqiResult.called
    /\ SuppliedUndefined("PM2.5")
    /\ aqiResult.result /= None

\* the order of the tie-break
TieOrder == <<"PM2.5", "PM10", "NO2", "SO2", "CO", "O3">>

\* the pollutants of the result that hold the maximum sub-index
Tied(res) ==
    {i \in 1..Len(TieOrder) :
        /\ TieOrder[i] \in KeysOf(res.sub_indices)
        /\ ValueAt(res.sub_indices, TieOrder[i]) = res.aqi}

\* C29: when several pollutants share the maximum sub-index, the dominant
\* pollutant is the first of them in the order PM2.5, PM10, NO2, SO2, CO, O3,
\* whatever the order in which the caller passed the keyword arguments.
C29_TieBreak ==
    Returned =>
        \A order \in KeywordOrders :
            LET res == calculate_indian_aqi(BindKeywords(Kwargs(reading, order)))
            IN  /\ res = aqiResult.result
                /\ \E i \in Tied(Val(res)) :
                      /\ Val(res).dominant_pollutant = TieOrder[i]
                      /\ \A j \in Tied(Val(res)) : i <= j

\* several pollutants share the maximum and the first supplied is not one
\* of them
C29_Witness ==
    /\ Returned
    /\ Cardinality(Tied(TheResult)) >= 2
    /\ TheResult.sub_indices[1][2] < TheResult.aqi
    /\ TheResult.dominant_pollutant = "NO2"

-----------------------------------------------------------------------------
(* Further properties of analyze_odd_even_scheme, under SpecPolicy *)

\* the Delhi rows dated within [start - 15 days, end + 15 days] of a period
RelevantRows(rows, period) ==
    {r \in rows :
        /\ r.City = "Delhi"
        /\ r.Date >= to_datetime(period.start) - 15
        /\ r.Date <= to_datetime(period.end) + 15}

C28_EffectiveIsSignificantDrop ==
    report.called =>
        \A i \in 1..Len(report.rows) :
            LET row == report.rows[i]
            IN  /\ row.statistically_significant <=>
                      (IsNum(row.p_value) /\ row.p_value.n * 100 < 5 * row.p_value.d)
                /\ row.effectiveness = "Effective" =>
                      /\ row.statistically_significant
                      /\ (IsNum(row.before_aqi) /\ row.before_aqi.n > 0) =>
                            /\ IsNum(row.during_aqi)
                            /\ row.during_aqi.n * row.before_aqi.d
                                  < row.before_aqi.n * row.during_aqi.d

\* a report with an 'Effective' row and with a row whose p-value is NaN
C28_Witness ==
    /\ report.called
    /\ \E i \in 1..Len(report.rows) :
          /\ report.rows[i].effectiveness = "Effective"
          /\ report.rows[i].statistically_significant
    /\ \E i \in 1..Len(report.rows) :
          /\ IsNaN(report.rows[i].p_value)
          /\ ~report.rows[i].statistically_significant

=============================================================================
